---- MODULE Spec2Model ----
(***************************************************************************)
(* ntscjguess: finds the NTSC-J colour that converts to a given sRGB       *)
(* colour, by hill climbing over the 8-bit RGB lattice (src/ntscjguess.c). *)
(*                                                                         *)
(* Numbers.  A C "long int" is a TLA+ integer.  The float that rgbtofloat  *)
(* returns is kept exactly, as an IEEE binary32 value [neg, m, k] standing *)
(* for (-1)^neg * m / 2^k with 2^23 <= m < 2^24 (or m = 0), so that the    *)
(* truncating cast of rgbtoint is computed bit for bit.  Every float from  *)
(* tolinear onwards (linear RGB, XYZ, distances) is a fixed-point integer  *)
(* counting units of 1/Scale; pow() is computed on those integers.         *)
(***************************************************************************)
EXTENDS Integers, Sequences, FiniteSets, TLC

(***************************************************************************)
(* Bounds of the model.                                                    *)
(***************************************************************************)
\* at most this many command-line arguments after the program name
MaxArgs == 2
\* the digit part of the argument has between MinDigits and MaxDigits characters
MinDigits == 5
MaxDigits == 7
\* the history variables stop growing after this many sweeps of one run
MaxSweeps == 48

(***************************************************************************)
(* Fixed-point unit of the floats of the colour pipeline.                  *)
(***************************************************************************)
Scale == 10^4
\* unit of the matrix coefficients
CoefScale == 10^5

(***************************************************************************)
(* Characters and strtol(nptr, &endptr, 0)                                 *)
(***************************************************************************)
WhiteSpace == {" "}
OctDigits == {"0", "1", "2", "3", "4", "5", "6", "7"}
DecDigits == OctDigits \cup {"8", "9"}
HexDigits == DecDigits \cup {"a", "b", "c", "d", "e", "f", "A", "B", "C", "D", "E", "F"}

DigitVal(c) ==
    CASE c = "0" -> 0 [] c = "1" -> 1 [] c = "2" -> 2 [] c = "3" -> 3
      [] c = "4" -> 4 [] c = "5" -> 5 [] c = "6" -> 6 [] c = "7" -> 7
      [] c = "8" -> 8 [] c = "9" -> 9
      [] c \in {"a", "A"} -> 10 [] c \in {"b", "B"} -> 11
      [] c \in {"c", "C"} -> 12 [] c \in {"d", "D"} -> 13
      [] c \in {"e", "E"} -> 14 [] c \in {"f", "F"} -> 15

DigitsOf(base) == IF base = 16 THEN HexDigits ELSE IF base = 8 THEN OctDigits ELSE DecDigits

\* LONG_MAX of the narrowest long int the C standard allows
LongMax == 2147483647

\* number of characters of s, from position i on, that belong to set
RECURSIVE SpanLen(_, _, _)
SpanLen(s, i, set) ==
    IF i <= Len(s) /\ s[i] \in set THEN 1 + SpanLen(s, i + 1, set) ELSE 0

\* value of the n digits of s starting at position i; -1 when it exceeds LongMax
RECURSIVE Accumulate(_, _, _, _, _)
Accumulate(s, i, n, base, acc) ==
    IF n = 0 THEN acc
    ELSE IF acc > (LongMax - DigitVal(s[i])) \div base THEN -1
    ELSE Accumulate(s, i + 1, n - 1, base, acc * base + DigitVal(s[i]))

\* strtol with base 0: white space, optional sign, 0x/0X prefix for base 16,
\* leading 0 for base 8, else base 10.  consumed is endptr - nptr.
strtol(s) ==
    LET ws    == SpanLen(s, 1, WhiteSpace)
        sgn   == IF ws + 1 <= Len(s) /\ s[ws + 1] \in {"+", "-"} THEN 1 ELSE 0
        neg   == sgn = 1 /\ s[ws + 1] = "-"
        p     == ws + sgn + 1
        ishex == /\ p + 2 <= Len(s)
                 /\ s[p] = "0"
                 /\ s[p + 1] \in {"x", "X"}
                 /\ s[p + 2] \in HexDigits
        base  == IF ishex THEN 16
                 ELSE IF p <= Len(s) /\ s[p] = "0" THEN 8 ELSE 10
        start == IF ishex THEN p + 2 ELSE p
        n     == SpanLen(s, start, DigitsOf(base))
        mag   == Accumulate(s, start, n, base, 0)
    IN  IF n = 0 THEN [value |-> 0, consumed |-> 0, errno |-> 0]
        ELSE IF mag < 0
             THEN [value |-> IF neg THEN -LongMax - 1 ELSE LongMax,
                   consumed |-> start - 1 + n, errno |-> 34]
        ELSE [value |-> IF neg THEN -mag ELSE mag,
              consumed |-> start - 1 + n, errno |-> 0]

(***************************************************************************)
(* Floats                                                                  *)
(***************************************************************************)
\* long division: doubles the quotient q of a / d until it has 24 bits
RECURSIVE Normalize(_, _, _, _)
Normalize(q, r, k, d) ==
    IF q >= 2^23 THEN [q |-> q, r |-> r, k |-> k]
    ELSE IF 2 * r >= d THEN Normalize(2 * q + 1, 2 * r - d, k + 1, d)
    ELSE Normalize(2 * q, 2 * r, k + 1, d)

\* ToFloat rounding toward zero instead of to nearest
ToFloatTruncating(n, d) ==
    IF n = 0 THEN [neg |-> FALSE, m |-> 0, k |-> 0]
    ELSE LET a == IF n < 0 THEN -n ELSE n
             t == Normalize(a \div d, a % d, 0, d)
         IN  [neg |-> n < 0, m |-> t.q, k |-> t.k]

\* the binary32 value nearest to n / d (round to nearest, ties to even)
ToFloat(n, d) ==
    IF n = 0 THEN [neg |-> FALSE, m |-> 0, k |-> 0]
    ELSE LET a  == IF n < 0 THEN -n ELSE n
             t  == Normalize(a \div d, a % d, 0, d)
             up == 2 * t.r > d \/ (2 * t.r = d /\ t.q % 2 = 1)
             m  == IF up THEN t.q + 1 ELSE t.q
         IN  IF m = 2^24 THEN [neg |-> n < 0, m |-> 2^23, k |-> t.k - 1]
             ELSE [neg |-> n < 0, m |-> m, k |-> t.k]

\* the fixed-point integer (units of 1/Scale) nearest below a binary32 value
ToFixed(f) ==
    IF f.m = 0 THEN 0
    ELSE LET mag == ((f.m \div 2^10) * Scale) \div 2^(f.k - 10)
         IN  IF f.neg THEN -mag ELSE mag

\* clamp a float between 0.0 and 1.0
clampfloat(input) ==
    IF input < 0 THEN 0
    ELSE IF input > Scale THEN Scale
    ELSE input

\* RGB8 to float: input / 255.0, rounded to float by the return
rgbtofloat(input) == ToFloat(input, 255)

\* float to RGB8: (int)(input * 255.0); the product is exact in double and
\* the cast truncates toward zero
rgbtoint(input) ==
    IF input.m = 0 THEN 0
    ELSE LET prod256 == (input.m \div 256) * 255 + ((input.m % 256) * 255) \div 256
             mag     == prod256 \div 2^(input.k - 8)
         IN  IF input.neg THEN -mag ELSE mag

\* largest r in lo..hi with r*r <= x
RECURSIVE SqrtSearch(_, _, _)
SqrtSearch(x, lo, hi) ==
    IF lo >= hi THEN lo
    ELSE LET mid == (lo + hi + 1) \div 2
         IN  IF mid * mid <= x THEN SqrtSearch(x, mid, hi)
             ELSE SqrtSearch(x, lo, mid - 1)

\* fifth power of a fixed-point number in [0, 1]
Pow5(r) ==
    LET r2 == (r * r) \div Scale
        r4 == (r2 * r2) \div Scale
    IN  (r4 * r) \div Scale

\* largest r in lo..hi with r^5 <= x
RECURSIVE Root5Search(_, _, _)
Root5Search(x, lo, hi) ==
    IF lo >= hi THEN lo
    ELSE LET mid == (lo + hi + 1) \div 2
         IN  IF Pow5(mid) <= x THEN Root5Search(x, mid, hi)
             ELSE Root5Search(x, lo, mid - 1)

\* pow(y, 2.4) for y >= 0: y^2.4 = y^2 * (y^2)^(1/5).  For y >= 1 the power
\* is at least y, which is all its caller needs: it clamps the result to 1.
Pow24(y) ==
    IF y >= Scale THEN y
    ELSE LET y2 == (y * y) \div Scale
         IN  (y2 * Root5Search(y2, 0, Scale)) \div Scale

\* sRGB gamma function, to linear
tolinear(input) ==
    LET x == ToFixed(input)
    IN  IF 10 * x <= 4045
        THEN clampfloat((x * 100) \div 1292)
        ELSE clampfloat(Pow24(((x + 550) * 1000) \div 1055))

(***************************************************************************)
(* Pixels and the colour pipeline                                          *)
(***************************************************************************)
\* precomputed NTSC-J to sRGB colour gamut conversion, in units of 1/CoefScale
ConversionMatrix ==
    << << 134756, -27646,  -7110 >>,
       <<  -3115,  95651,   7464 >>,
       <<  -2444,  -4815, 107259 >> >>

\* RGB to XYZ, assuming sRGB gamut for RGB, in units of 1/CoefScale
RGBtoXYZMatrix ==
    << << 41241, 35758, 18045 >>,
       << 21265, 71517,  7218 >>,
       <<  1933, 11919, 95039 >> >>

\* struct pixel8: three unsigned char
Pixel8 == [red : 0..255, green : 0..255, blue : 0..255]

\* conversion of a long int to unsigned char
ToUChar(n) == n % 256

\* input >> 16 is the quotient rounded down, also for a negative input
pixelfromint(input) ==
    [red   |-> rgbtofloat(input \div 65536),
     green |-> rgbtofloat((input \div 256) % 256),
     blue  |-> rgbtofloat(input % 256)]

pixelfrompixel8(input) ==
    [red   |-> rgbtofloat(input.red),
     green |-> rgbtofloat(input.green),
     blue  |-> rgbtofloat(input.blue)]

pixel8frompixel(input) ==
    [red   |-> ToUChar(rgbtoint(input.red)),
     green |-> ToUChar(rgbtoint(input.green)),
     blue  |-> ToUChar(rgbtoint(input.blue))]

pixeltolinear(input) ==
    [red   |-> tolinear(input.red),
     green |-> tolinear(input.green),
     blue  |-> tolinear(input.blue)]

\* one row of a matrix times a pixel
RowTimes(row, input) ==
    (row[1] * input.red + row[2] * input.green + row[3] * input.blue) \div CoefScale

NTSCJtoSRGB(input) ==
    [red   |-> clampfloat(RowTimes(ConversionMatrix[1], input)),
     green |-> clampfloat(RowTimes(ConversionMatrix[2], input)),
     blue  |-> clampfloat(RowTimes(ConversionMatrix[3], input))]

RGBtoXYZ(input) ==
    [red   |-> clampfloat(RowTimes(RGBtoXYZMatrix[1], input)),
     green |-> clampfloat(RowTimes(RGBtoXYZMatrix[2], input)),
     blue  |-> clampfloat(RowTimes(RGBtoXYZMatrix[3], input))]

\* start with 8bit pixel, convert to float, linearize, gamut convert, convert to XYZ
processpixel8(input) ==
    RGBtoXYZ(NTSCJtoSRGB(pixeltolinear(pixelfrompixel8(input))))

\* distance between 2 pixels, in XYZ colour space
distance(pixA, pixB) ==
    LET diffr == pixA.red - pixB.red
        diffg == pixA.green - pixB.green
        diffb == pixA.blue - pixB.blue
    IN  SqrtSearch(diffr * diffr + diffg * diffg + diffb * diffb, 0, 2 * Scale)

(***************************************************************************)
(* The command lines the model runs the program on                         *)
(***************************************************************************)
\* how an argument begins
Prefixes ==
    { <<"0", "x">>, <<"0", "X">>, <<"0", "0">>, <<"x", "0">>,
      <<"5", "0">>, <<"-", "8">>,
      <<" ", "0", "x">>, <<"+", "0", "x">> }

\* the characters of its digit part
DigitChars == {"0", "f", "g"}

DigitStrings == UNION { [1..n -> DigitChars] : n \in MinDigits..MaxDigits }

\* the arguments 0x0000BB, one for every value of the byte BB
LowerHexDigits == DecDigits \cup {"a", "b", "c", "d", "e", "f"}

ByteStrings ==
    { <<"0", "x", "0", "0", "0", "0", h, l>> : h \in LowerHexDigits, l \in LowerHexDigits }

ArgStrings == { p \o d : p \in Prefixes, d \in DigitStrings } \cup ByteStrings

\* the arguments of the command lines with no or several arguments
SampleArgs == { <<"0", "x", "8", "0", "8", "0", "8", "0">>, <<"g">> }

CommandLines ==
    UNION { IF n = 1 THEN { <<a>> : a \in ArgStrings }
            ELSE [1..n -> SampleArgs] : n \in 0..MaxArgs }

(***************************************************************************)
(* State                                                                   *)
(***************************************************************************)
VARIABLES
    argv,             \* the arguments after the program name; argc = Len(argv) + 1
    pc,               \* position of main
    output,           \* main's return value
    input,            \* what strtol returned
    inputok,
    goal,             \* XYZ pixel to approach
    firstguess,
    firstguessoutput, \* XYZ pixel the first guess converts to
    firsterror,
    besterror, bestguess,
    foundbetterguess, lastguess, newguess,
    stdout,           \* what printf has written, one entry per call
    run,              \* history: 1 in the first run on argv, 2 in the second
    prev,             \* history: what the first run left behind
    sweeps,           \* history: iterations of while (true) begun in this run
    centres,          \* history: bestguess and besterror at the top of each of them
    scored            \* history: the candidates scored in this iteration, each
                      \* with its error, besterror before it, and whether it was kept

vars == << argv, pc, output, input, inputok, goal, firstguess, firstguessoutput,
           firsterror, besterror, bestguess, foundbetterguess, lastguess, newguess,
           stdout, run, prev, sweeps, centres, scored >>

prog == << pc, output, input, inputok, goal, firstguess, firstguessoutput,
           firsterror, besterror, bestguess, foundbetterguess, lastguess, newguess,
           stdout, sweeps, centres, scored >>

argc == Len(argv) + 1

Black8 == [red |-> 0, green |-> 0, blue |-> 0]

\* main has not begun: locals hold zeros until their declaration is reached
Fresh ==
    /\ pc = "start"
    /\ output = 0
    /\ input = 0
    /\ inputok = FALSE
    /\ goal = Black8
    /\ firstguess = Black8
    /\ firstguessoutput = Black8
    /\ firsterror = 0
    /\ besterror = 0
    /\ bestguess = Black8
    /\ foundbetterguess = FALSE
    /\ lastguess = Black8
    /\ newguess = Black8
    /\ stdout = << >>
    /\ sweeps = 0
    /\ centres = << >>
    /\ scored = << >>

Init ==
    /\ argv \in CommandLines
    /\ run = 1
    /\ prev = [output |-> 0, stdout |-> << >>, centres |-> << >>]
    /\ Fresh

(***************************************************************************)
(* main                                                                    *)
(***************************************************************************)
\* CheckArgc with the test written argc >= 2
CheckArgcAtLeast ==
    /\ pc = "start"
    /\ output' = 1
    /\ pc' = IF argc >= 2 THEN "parse" ELSE "exit"
    /\ UNCHANGED << argv, input, inputok, goal, firstguess, firstguessoutput,
                    firsterror,
                    besterror, bestguess, foundbetterguess, lastguess,
                    newguess, stdout, run, prev, sweeps, centres, scored >>

\* int output = 1; if (argc == 2)
CheckArgc ==
    /\ pc = "start"
    /\ output' = 1
    /\ pc' = IF argc = 2 THEN "parse" ELSE "exit"
    /\ UNCHANGED << argv, input, inputok, goal, firstguess, firstguessoutput,
                    firsterror,
                    besterror, bestguess, foundbetterguess, lastguess,
                    newguess, stdout, run, prev, sweeps, centres, scored >>

\* the three tests on what strtol left behind
InputOk(arg, r) ==
    IF r.consumed # 8 THEN FALSE
    ELSE IF r.consumed < Len(arg) THEN FALSE
    ELSE IF r.errno # 0 THEN FALSE
    ELSE TRUE

\* output = 2; strtol; inputok
ParseArg ==
    /\ pc = "parse"
    /\ LET r == strtol(argv[1])
       IN  /\ input' = r.value
           /\ inputok' = InputOk(argv[1], r)
           /\ pc' = IF InputOk(argv[1], r) THEN "seed" ELSE "exit"
    /\ output' = 2
    /\ UNCHANGED << argv, goal, firstguess, firstguessoutput,
                    firsterror, besterror, bestguess,
                    foundbetterguess, lastguess, newguess, stdout, run, prev,
                    sweeps, centres, scored >>

\* Seed with besterror declared but not initialised: it holds whatever the
\* stack held, here either the right value or 0
SeedUninitialised ==
    /\ pc = "seed"
    /\ LET inputpixel       == pixelfromint(input)
           linearinputpixel == pixeltolinear(inputpixel)
           fg               == pixel8frompixel(inputpixel)
           fgo              == processpixel8(fg)
           fe               == distance(fgo, RGBtoXYZ(linearinputpixel))
       IN  /\ goal' = RGBtoXYZ(linearinputpixel)
           /\ firstguess' = fg
           /\ firstguessoutput' = fgo
           /\ firsterror' = fe
           /\ besterror' \in {fe, 0}
           /\ bestguess' = fg
    /\ pc' = "sweep"
    /\ UNCHANGED << argv, output, input, inputok, foundbetterguess, lastguess,
                    newguess, stdout, run, prev, sweeps, centres, scored >>

\* goal and first guess
Seed ==
    /\ pc = "seed"
    /\ LET inputpixel       == pixelfromint(input)
           linearinputpixel == pixeltolinear(inputpixel)
           fg               == pixel8frompixel(inputpixel)
           fgo              == processpixel8(fg)
           fe               == distance(fgo, RGBtoXYZ(linearinputpixel))
       IN  /\ goal' = RGBtoXYZ(linearinputpixel)
           /\ firstguess' = fg
           /\ firstguessoutput' = fgo
           /\ firsterror' = fe
           /\ besterror' = fe
           /\ bestguess' = fg
    /\ pc' = "sweep"
    /\ UNCHANGED << argv, output, input, inputok, foundbetterguess, lastguess,
                    newguess, stdout, run, prev, sweeps, centres, scored >>

\* top of while (true)
BeginSweep ==
    /\ pc = "sweep"
    /\ foundbetterguess' = FALSE
    /\ lastguess' = bestguess
    /\ newguess' = bestguess
    /\ sweeps' = IF sweeps < MaxSweeps THEN sweeps + 1 ELSE sweeps
    /\ centres' = IF sweeps < MaxSweeps
                  THEN Append(centres, [guess |-> bestguess, error |-> besterror])
                  ELSE centres
    /\ scored' = << >>
    /\ pc' = "redplus"
    /\ UNCHANGED << argv, output, input, inputok, goal, firstguess, firstguessoutput,
                    firsterror,
                    besterror, bestguess, stdout, run, prev >>

\* CanStep with the upper test written <= 255
CanStepOffByOne(value, delta) ==
    IF delta = 1 THEN value <= 255 ELSE value > 0

\* if (newguess.c < 255) for a step up, if (newguess.c > 0) for a step down
CanStep(value, delta) ==
    IF delta = 1 THEN value < 255 ELSE value > 0

\* Improves with the test written <=
ImprovesOrTies(newerror, error) == newerror <= error

\* Improves with the test written >
ImprovesReversed(newerror, error) == newerror > error

\* if (newerror < besterror)
Improves(newerror, error) == newerror < error

\* Try without the assignment besterror = newerror
TryKeepError(from, chan, delta, next) ==
    /\ IF CanStep(from[chan], delta)
       THEN LET cand     == [from EXCEPT ![chan] = ToUChar(@ + delta)]
                newerror == distance(processpixel8(cand), goal)
            IN  /\ newguess' = cand
                /\ scored' = Append(scored, [guess |-> cand, error |-> newerror,
                                             before |-> besterror,
                                             accepted |-> Improves(newerror, besterror)])
                /\ IF Improves(newerror, besterror)
                   THEN /\ foundbetterguess' = TRUE
                        /\ besterror' = besterror
                        /\ bestguess' = cand
                   ELSE UNCHANGED << foundbetterguess, besterror, bestguess >>
       ELSE /\ newguess' = from
            /\ UNCHANGED << scored, foundbetterguess, besterror, bestguess >>
    /\ pc' = next
    /\ UNCHANGED << argv, output, input, inputok, goal, firstguess, firstguessoutput,
                    firsterror,
                    lastguess, stdout, run, prev, sweeps, centres >>

\* one of the six blocks of the loop body: from the pixel from, step channel
\* chan by delta (an unsigned char ++ or --), score the result, keep it if better
Try(from, chan, delta, next) ==
    /\ IF CanStep(from[chan], delta)
       THEN LET cand     == [from EXCEPT ![chan] = ToUChar(@ + delta)]
                newerror == distance(processpixel8(cand), goal)
            IN  /\ newguess' = cand
                /\ scored' = Append(scored, [guess |-> cand, error |-> newerror,
                                             before |-> besterror,
                                             accepted |-> Improves(newerror, besterror)])
                /\ IF Improves(newerror, besterror)
                   THEN /\ foundbetterguess' = TRUE
                        /\ besterror' = newerror
                        /\ bestguess' = cand
                   ELSE UNCHANGED << foundbetterguess, besterror, bestguess >>
       ELSE /\ newguess' = from
            /\ UNCHANGED << scored, foundbetterguess, besterror, bestguess >>
    /\ pc' = next
    /\ UNCHANGED << argv, output, input, inputok, goal, firstguess, firstguessoutput,
                    firsterror,
                    lastguess, stdout, run, prev, sweeps, centres >>

TryRedPlus    == pc = "redplus"    /\ Try(newguess,  "red",   1,  "redminus")
TryRedMinus   == pc = "redminus"   /\ Try(lastguess, "red",   -1, "greenplus")
\* TryGreenPlus stepping from the best guess so far instead of lastguess
TryGreenPlusFromBest == pc = "greenplus" /\ Try(bestguess, "green", 1, "greenminus")
\* newguess = lastguess; if (newguess.green < 255) ...
TryGreenPlus  == pc = "greenplus"  /\ Try(lastguess, "green", 1,  "greenminus")
TryGreenMinus == pc = "greenminus" /\ Try(lastguess, "green", -1, "blueplus")
TryBluePlus   == pc = "blueplus"   /\ Try(lastguess, "blue",  1,  "blueminus")
\* TryBlueMinus stepping up, as the block before it does
TryBlueMinusStepsUp == pc = "blueminus" /\ Try(lastguess, "blue", 1, "check")
\* newguess = lastguess; if (newguess.blue > 0) ...
TryBlueMinus  == pc = "blueminus"  /\ Try(lastguess, "blue",  -1, "check")

\* EndSweep with the test inverted: leaves the loop when the guess improved
EndSweepInverted ==
    /\ pc = "check"
    /\ IF foundbetterguess
       THEN /\ stdout' = Append(stdout, [kind |-> "result", input |-> input,
                                         guess |-> bestguess, error |-> besterror])
            /\ pc' = "allgood"
       ELSE /\ stdout' = stdout
            /\ pc' = "sweep"
    /\ UNCHANGED << argv, output, input, inputok, goal, firstguess, firstguessoutput,
                    firsterror,
                    besterror, bestguess, foundbetterguess, lastguess, newguess,
                    run, prev, sweeps, centres, scored >>

\* if the guess didn't improve, we are done
EndSweep ==
    /\ pc = "check"
    /\ IF ~foundbetterguess
       THEN /\ stdout' = Append(stdout, [kind |-> "result", input |-> input,
                                         guess |-> bestguess, error |-> besterror])
            /\ pc' = "allgood"
       ELSE /\ stdout' = stdout
            /\ pc' = "sweep"
    /\ UNCHANGED << argv, output, input, inputok, goal, firstguess, firstguessoutput,
                    firsterror,
                    besterror, bestguess, foundbetterguess, lastguess, newguess,
                    run, prev, sweeps, centres, scored >>

\* output = 0; // all good
AllGood ==
    /\ pc = "allgood"
    /\ output' = 0
    /\ pc' = "exit"
    /\ UNCHANGED << argv, input, inputok, goal, firstguess, firstguessoutput,
                    firsterror,
                    besterror, bestguess, foundbetterguess, lastguess, newguess,
                    stdout, run, prev, sweeps, centres, scored >>

\* Exit with the usage message printed whatever output is
ExitAlwaysUsage ==
    /\ pc = "exit"
    /\ stdout' = Append(stdout, [kind |-> "usage"])
    /\ pc' = "done"
    /\ UNCHANGED << argv, output, input, inputok, goal, firstguess, firstguessoutput,
                    firsterror,
                    besterror, bestguess, foundbetterguess, lastguess, newguess,
                    run, prev, sweeps, centres, scored >>

\* if (output != 0) printf("Usage: ..."); return output;
Exit ==
    /\ pc = "exit"
    /\ stdout' = IF output # 0 THEN Append(stdout, [kind |-> "usage"]) ELSE stdout
    /\ pc' = "done"
    /\ UNCHANGED << argv, output, input, inputok, goal, firstguess, firstguessoutput,
                    firsterror,
                    besterror, bestguess, foundbetterguess, lastguess, newguess,
                    run, prev, sweeps, centres, scored >>

\* the same command line is run a second time
Rerun ==
    /\ pc = "done"
    /\ run = 1
    /\ run' = 2
    /\ prev' = [output |-> output, stdout |-> stdout, centres |-> centres]
    /\ pc' = "start"
    /\ output' = 0
    /\ input' = 0
    /\ inputok' = FALSE
    /\ goal' = Black8
    /\ firstguess' = Black8
    /\ firstguessoutput' = Black8
    /\ firsterror' = 0
    /\ besterror' = 0
    /\ bestguess' = Black8
    /\ foundbetterguess' = FALSE
    /\ lastguess' = Black8
    /\ newguess' = Black8
    /\ stdout' = << >>
    /\ sweeps' = 0
    /\ centres' = << >>
    /\ scored' = << >>
    /\ UNCHANGED argv

Step ==
    \/ CheckArgc
    \/ ParseArg
    \/ Seed
    \/ BeginSweep
    \/ TryRedPlus
    \/ TryRedMinus
    \/ TryGreenPlus
    \/ TryGreenMinus
    \/ TryBluePlus
    \/ TryBlueMinus
    \/ EndSweep
    \/ AllGood
    \/ Exit

Next == Step \/ Rerun

Spec == Init /\ [][Next]_vars

\* the positions of main
Positions == {"start", "parse", "seed", "sweep", "redplus", "redminus",
              "greenplus", "greenminus", "blueplus", "blueminus", "check",
              "allgood", "exit", "done"}

\* main moves on to another position; every step of Step is such a move and,
\* before main has returned, only a step of Step is
Advance ==
    /\ pc # "done"
    /\ \E p \in Positions \ {pc} : pc' = p

\* main is one thread of control that runs until it returns
LiveSpec == Spec /\ WF_pc(Advance)

(***************************************************************************)
(* Properties                                                              *)
(***************************************************************************)
\* number of entries of stdout of the given kind
RECURSIVE CountKind(_, _)
CountKind(out, kind) ==
    IF out = << >> THEN 0
    ELSE (IF Head(out).kind = kind THEN 1 ELSE 0) + CountKind(Tail(out), kind)

\* the argument is 0x (or 0X) followed by exactly six hexadecimal digits
IsHexArgument(a) ==
    /\ Len(a) = 8
    /\ a[1] = "0"
    /\ a[2] \in {"x", "X"}
    /\ \A i \in 3..8 : a[i] \in HexDigits

\* positions of main from the top of the loop to its bottom
InSweep == pc \in {"redplus", "redminus", "greenplus", "greenminus",
                   "blueplus", "blueminus", "check"}

\* C1: with exactly one argument, main returns 0 if and only if the argument
\* is 0x followed by exactly six hexadecimal digits; any other single argument
\* returns 2 and no sweep of the search is run.
C1_ExitZeroIffHexArgument ==
    (pc = "done" /\ argc = 2) =>
        /\ output = 0 <=> IsHexArgument(argv[1])
        /\ ~IsHexArgument(argv[1]) => (output = 2 /\ sweeps = 0)

\* C2: whenever the number of arguments is not exactly one, main returns 1
\* without parsing an argument and without searching, and it returns 1 in no
\* other case.
C2_ExitOneIffWrongArgCount ==
    /\ argc # 2 => (pc \in {"start", "exit", "done"} /\ sweeps = 0 /\ ~inputok)
    /\ pc = "done" => (output = 1 <=> argc # 2)

C2_Witness ==
    /\ pc = "done"
    /\ argc = 3
    /\ IsHexArgument(argv[1])
    /\ output = 1

\* C3: in a finished run the usage message has been printed (once) if and only
\* if the exit code is 1 or 2, and the result line has been printed exactly once
\* if and only if the exit code is 0; nothing else is ever printed.
C3_UsageIffFailure ==
    /\ CountKind(stdout, "result") <= 1
    /\ pc = "done" =>
        /\ output \in {0, 1, 2}
        /\ CountKind(stdout, "usage") = (IF output # 0 THEN 1 ELSE 0)
        /\ CountKind(stdout, "result") = (IF output = 0 THEN 1 ELSE 0)
        /\ Len(stdout) = 1

C3_Witness ==
    /\ pc = "done"
    /\ output = 0
    /\ sweeps > 1
    /\ CountKind(stdout, "result") = 1
    /\ CountKind(stdout, "usage") = 0

Channels == {"red", "green", "blue"}

\* the pixels one unit step away from g on one channel, inside the lattice
Neighbours(g) ==
    { [g EXCEPT ![c] = @ + dl] :
        c \in { x \in Channels : g[x] < 255 }, dl \in {1} }
    \cup
    { [g EXCEPT ![c] = @ + dl] :
        c \in { x \in Channels : g[x] > 0 }, dl \in {-1} }

\* error of the pixel g against the goal of this run
ErrorOf(g) == distance(processpixel8(g), goal)

\* no neighbour of g has an error strictly less than that of g
IsLocalOptimum(g) == \A n \in Neighbours(g) : ErrorOf(n) >= ErrorOf(g)

\* value of the two hexadecimal digits of a at positions i and i + 1
HexByte(a, i) == 16 * DigitVal(a[i]) + DigitVal(a[i + 1])

\* no run is longer than the history variables can record
HistoryComplete == sweeps < MaxSweeps

\* C4: for every validated input the search loop terminates: a sweep that
\* accepts no candidate is reached, the result is printed and main returns 0.
C4_SearchTerminates ==
    (pc = "seed") ~>
        (pc = "done" /\ output = 0 /\ ~foundbetterguess
            /\ CountKind(stdout, "result") = 1)

C4_Witness ==
    /\ pc = "done"
    /\ output = 0
    /\ ~foundbetterguess
    /\ sweeps >= 10
    /\ Len(stdout) = 1

\* C5: the recorded best error is strictly decreasing: a candidate is kept
\* only with an error strictly below besterror, besterror then becomes that
\* error, and besterror at the top of each sweep after the first is strictly
\* less than at the top of the sweep before.
C5_BestErrorStrictlyDecreases ==
    /\ \A i \in 1..Len(scored) :
          scored[i].accepted => scored[i].error < scored[i].before
    /\ \A i \in 1..(Len(centres) - 1) :
          centres[i + 1].error < centres[i].error
    /\ InSweep =>
          /\ besterror <= centres[Len(centres)].error
          /\ foundbetterguess <=> besterror < centres[Len(centres)].error
          /\ \A i \in 1..Len(scored) :
                /\ besterror <= scored[i].before
                /\ scored[i].accepted => besterror <= scored[i].error

C5_Witness ==
    /\ pc = "check"
    /\ Len(centres) >= 3
    /\ \E i \in 1..Len(scored) : scored[i].accepted
    /\ besterror < centres[Len(centres)].error

\* C6: the error reported at termination is at most the error of the seed;
\* it is strictly less unless the seed is a local optimum, and then the
\* reported guess is the seed.
C6_SeedNeverWorsened ==
    (pc = "done" /\ output = 0) =>
        /\ stdout[1].error <= firsterror
        /\ firsterror = ErrorOf(firstguess)
        /\ IF IsLocalOptimum(firstguess)
           THEN stdout[1].guess = firstguess /\ stdout[1].error = firsterror
           ELSE stdout[1].error < firsterror

C6_Witness ==
    /\ pc = "done"
    /\ output = 0
    /\ ~IsLocalOptimum(firstguess)
    /\ stdout[1].guess # firstguess
    /\ stdout[1].error < firsterror

\* C7: every candidate that is scored is the centre of the sweep moved by one
\* unit on one channel without leaving 0..255 and without wrapping around;
\* a step up from 255 and a step down from 0 are not scored at all, so a sweep
\* scores exactly the neighbours inside the lattice, and bestguess stays in it.
C7_CandidatesInRange ==
    /\ bestguess \in Pixel8
    /\ \A i \in 1..Len(scored) :
          /\ scored[i].guess \in Pixel8
          /\ scored[i].guess \in Neighbours(lastguess)
    /\ pc = "check" => Len(scored) = Cardinality(Neighbours(lastguess))

C7_Witness ==
    /\ pc = "check"
    /\ lastguess.red = 255
    /\ lastguess.blue = 0
    /\ lastguess.green \in 1..254
    /\ Len(scored) = 4

\* C8: for every validated argument 0xRRGGBB the first guess has red = RR,
\* green = GG and blue = BB after the division by 255.0, the rounding to
\* float and the truncating multiplication by 255.0.
C8_SeedIsInputBytes ==
    (inputok /\ pc # "seed" /\ IsHexArgument(argv[1])) =>
        firstguess = [red   |-> HexByte(argv[1], 3),
                      green |-> HexByte(argv[1], 5),
                      blue  |-> HexByte(argv[1], 7)]

C8_Witness ==
    /\ pc = "sweep"
    /\ inputok
    /\ IsHexArgument(argv[1])
    /\ firstguess = [red |-> 0, green |-> 0, blue |-> 123]

\* C9: if no neighbour of the seed inside the lattice has an error strictly
\* less than the seed, the run makes exactly one sweep, prints the seed with
\* the error of the seed and returns 0.
C9_OptimalSeedOneSweep ==
    (inputok /\ pc # "seed" /\ IsLocalOptimum(firstguess)) =>
        /\ sweeps <= 1
        /\ bestguess = firstguess
        /\ besterror = firsterror
        /\ ~foundbetterguess
        /\ pc = "done" =>
              /\ sweeps = 1
              /\ output = 0
              /\ stdout = << [kind |-> "result", input |-> input,
                              guess |-> firstguess, error |-> firsterror] >>

C9_Witness ==
    /\ pc = "done"
    /\ inputok
    /\ IsLocalOptimum(firstguess)
    /\ \E n \in Neighbours(firstguess) : ErrorOf(n) = ErrorOf(firstguess)
    /\ sweeps = 1
    /\ stdout[1].guess = firstguess

ScanRank(centre, g) ==
    IF      g.red   = centre.red + 1   THEN 1
    ELSE IF g.red   = centre.red - 1   THEN 2
    ELSE IF g.green = centre.green + 1 THEN 3
    ELSE IF g.green = centre.green - 1 THEN 4
    ELSE IF g.blue  = centre.blue + 1  THEN 5
    ELSE 6

\* indices of the candidates accepted so far in this sweep
AcceptedIndices == { i \in 1..Len(scored) : scored[i].accepted }

\* the greatest element of a non-empty set of numbers
Greatest(S) == CHOOSE x \in S : \A y \in S : y <= x

\* C11: a candidate is accepted exactly when its error is strictly less than
\* the best error at that moment (an equal error is never accepted); the
\* candidates are scored in scan order; and at the bottom of a sweep that
\* accepted a candidate, bestguess is the last accepted candidate, no candidate
\* scored in the sweep has a smaller error, and every candidate scored before
\* it has a strictly greater error (of equal minima the first one wins).
C11_LastAcceptedIsFirstMinimum ==
    /\ \A i \in 1..Len(scored) :
          /\ scored[i].accepted <=> scored[i].error < scored[i].before
          /\ scored[i].error = scored[i].before => ~scored[i].accepted
    /\ \A i \in 1..(Len(scored) - 1) :
          ScanRank(lastguess, scored[i].guess) < ScanRank(lastguess, scored[i + 1].guess)
    /\ foundbetterguess <=> AcceptedIndices # {}
    /\ (pc = "check" /\ foundbetterguess) =>
          LET last == Greatest(AcceptedIndices)
          IN  /\ bestguess = scored[last].guess
              /\ besterror = scored[last].error
              /\ \A j \in 1..Len(scored) : scored[j].error >= besterror
              /\ \A j \in 1..(last - 1) : scored[j].error > besterror

\* the bottom of a sweep whose accepted candidate was not the first one scored
\* and in which a later candidate tied with it without replacing it
C11_Witness ==
    /\ pc = "check"
    /\ foundbetterguess
    /\ Greatest(AcceptedIndices) > 1
    /\ \E j \in 1..Len(scored) :
          /\ j > Greatest(AcceptedIndices)
          /\ scored[j].error = besterror
          /\ scored[j].guess # bestguess

\* sum over the channels of the absolute differences of two pixels
StepDistance(a, b) ==
    LET Abs(x) == IF x < 0 THEN -x ELSE x
    IN  Abs(a.red - b.red) + Abs(a.green - b.green) + Abs(a.blue - b.blue)

\* b is a moved by exactly 1 on exactly one channel
UnitStep(a, b) == StepDistance(a, b) = 1

\* C12: during a sweep lastguess is the centre recorded at its top and does
\* not follow bestguess; every candidate scored, also one scored after another
\* candidate was accepted, is lastguess moved by exactly 1 on exactly one
\* channel, and so is the best guess once one is accepted; the centres of two
\* consecutive sweeps differ by exactly 1 on exactly one channel.
C12_CandidatesFromSweepCentre ==
    /\ (InSweep /\ Len(centres) < MaxSweeps) =>
          lastguess = centres[Len(centres)].guess
    /\ \A i \in 1..Len(scored) : UnitStep(lastguess, scored[i].guess)
    /\ InSweep =>
          /\ StepDistance(lastguess, newguess) <= 1
          /\ IF foundbetterguess
             THEN UnitStep(lastguess, bestguess)
             ELSE bestguess = lastguess
    /\ \A i \in 1..(Len(centres) - 1) :
          UnitStep(centres[i].guess, centres[i + 1].guess)

\* the bottom of a sweep, not the first, that scored all six neighbours and
\* accepted one of them before scoring the last
C12_Witness ==
    /\ pc = "check"
    /\ Len(centres) >= 3
    /\ Len(scored) = 6
    /\ Cardinality(AcceptedIndices) >= 2
    /\ ~scored[6].accepted
    /\ UnitStep(lastguess, scored[6].guess)
    /\ bestguess # lastguess

\* the result line has been printed
ResultPrinted == stdout # << >> /\ stdout[1].kind = "result"

\* C13: once the result line is printed, no pixel one unit step away from the
\* reported guess on one channel, inside 0..255, has an error strictly less
\* than the reported error; the sweep that ends the search scored every such
\* pixel and accepted none.
C13_ReportedGuessIsLocalOptimum ==
    /\ ResultPrinted =>
          /\ \A n \in Neighbours(stdout[1].guess) : ErrorOf(n) >= stdout[1].error
          /\ { scored[i].guess : i \in 1..Len(scored) } = Neighbours(stdout[1].guess)
          /\ AcceptedIndices = {}
    /\ (pc = "check" /\ ~foundbetterguess) =>
          \A n \in Neighbours(bestguess) : ErrorOf(n) >= besterror

\* a finished search that moved away from the seed to a pixel with all six
\* neighbours, one of them strictly worse and one of them exactly as good
C13_Witness ==
    /\ pc = "done"
    /\ output = 0
    /\ ResultPrinted
    /\ stdout[1].guess # firstguess
    /\ Cardinality(Neighbours(stdout[1].guess)) = 6
    /\ \E n \in Neighbours(stdout[1].guess) : ErrorOf(n) > stdout[1].error
    /\ \E n \in Neighbours(stdout[1].guess) : ErrorOf(n) = stdout[1].error

\* C14: from the seed on, at the top of every sweep, inside it and after it,
\* besterror is the error of bestguess against the goal; the centre recorded
\* at the top of a sweep carries its own error; and the result line prints
\* bestguess together with besterror, the error of the guess it prints.
C14_BestErrorIsErrorOfBestGuess ==
    /\ (inputok /\ pc # "seed") => besterror = ErrorOf(bestguess)
    /\ (InSweep /\ Len(centres) < MaxSweeps) =>
          centres[Len(centres)].error = ErrorOf(centres[Len(centres)].guess)
    /\ ResultPrinted =>
          /\ stdout[1].guess = bestguess
          /\ stdout[1].error = besterror
          /\ stdout[1].error = ErrorOf(stdout[1].guess)

\* a finished search of several sweeps that prints a guess other than the
\* seed with a positive error smaller than that of the seed
C14_Witness ==
    /\ pc = "done"
    /\ ResultPrinted
    /\ sweeps >= 3
    /\ stdout[1].guess # firstguess
    /\ stdout[1].error = ErrorOf(stdout[1].guess)
    /\ stdout[1].error > 0
    /\ ErrorOf(firstguess) > stdout[1].error

\* the move from pixel a to pixel b, channel by channel
Move(a, b) == [red   |-> b.red - a.red,
               green |-> b.green - a.green,
               blue  |-> b.blue - a.blue]

\* the move m undone
Reverse(m) == [red |-> -m.red, green |-> -m.green, blue |-> -m.blue]

\* C15: no pixel is the centre of two different sweeps of a run, and the move
\* from one centre to the next is never the reverse of the move before it;
\* yet every sweep after the first scores the centre of the sweep before it,
\* the reverse of the last accepted move, and does not accept it.
C15_NoCentreRevisited ==
    /\ \A i, j \in 1..Len(centres) :
          i < j => centres[i].guess # centres[j].guess
    /\ \A i \in 1..(Len(centres) - 2) :
          Move(centres[i + 1].guess, centres[i + 2].guess)
              # Reverse(Move(centres[i].guess, centres[i + 1].guess))
    /\ (InSweep /\ Len(centres) < MaxSweeps) =>
          \A i \in 1..(Len(centres) - 1) : bestguess # centres[i].guess
    /\ (pc = "check" /\ Len(centres) >= 2 /\ Len(centres) < MaxSweeps) =>
          \E i \in 1..Len(scored) :
              /\ scored[i].guess = centres[Len(centres) - 1].guess
              /\ ~scored[i].accepted

\* the bottom of the tenth or a later sweep, which accepted a candidate after
\* scoring and rejecting the centre of the sweep before
C15_Witness ==
    /\ pc = "check"
    /\ Len(centres) >= 10
    /\ Len(centres) < MaxSweeps
    /\ foundbetterguess
    /\ \E i \in 1..Len(scored) :
          /\ scored[i].guess = centres[Len(centres) - 1].guess
          /\ scored[i].error > besterror
          /\ ~scored[i].accepted

White8 == [red |-> 255, green |-> 255, blue |-> 255]

\* sum of a row of matrix coefficients, in units of 1/Scale
RowSum(row) == ((row[1] + row[2] + row[3]) * Scale) \div CoefScale

\* XYZ of the D65 white point: the row sums of RGBtoXYZMatrix
D65WhitePoint == [red   |-> RowSum(RGBtoXYZMatrix[1]),
                  green |-> RowSum(RGBtoXYZMatrix[2]),
                  blue  |-> RowSum(RGBtoXYZMatrix[3])]

\* what counts as equal within tolerance, in units of 1/Scale
Tolerance == 2

\* the two pixels agree on every channel within the tolerance
WithinTolerance(a, b) ==
    \A c \in Channels : a[c] - b[c] <= Tolerance /\ b[c] - a[c] <= Tolerance

====
